---- MODULE Spec2Model ----
(***************************************************************************)
(* A state-machine model of notebooks/apps/hv_obj.py: a top-level script   *)
(* that activates the bokeh extension, loads two columns of a partitioned  *)
(* parquet dataset with dask, persists them, wraps them as hv.Points,      *)
(* datashades them, attaches plot options and hands the result to the      *)
(* bokeh renderer's server_doc, whose title it then sets.                  *)
(*                                                                         *)
(* The script's own state is its position (pc), the names it binds (df,    *)
(* shaded, doc) and the temporaries of its two chained expressions.  The   *)
(* library calls are modelled by their documented effect on that state;    *)
(* where a call can raise, the script has no try/except, so the exception  *)
(* leaves the module and ends the run.                                     *)
(***************************************************************************)
EXTENDS Integers, Sequences, FiniteSets, TLC

VARIABLES
    disk,        \* the dataset at '../data/nyc_taxi_hours.parq/', or None when the path is missing
    pc,          \* the call the script is at, or "persist_wait", "done", "failed"
    ext,         \* the rendering extensions activated so far
    frame,       \* line 8's temporary: the lazy dask collection before persist
    pending,     \* partitions submitted to the scheduler's workers and not yet computed
    memory,      \* partition index -> materialized rows
    df,          \* the name df (bound when persist returns)
    points,      \* line 9's temporary: hv.Points(df)
    rgb,         \* line 9's temporary: datashade(...)'s image
    shaded,      \* the name shaded
    renderer,    \* line 12's temporary: hv.renderer('bokeh')
    doc,         \* the name doc
    titleWrites, \* how many times the script assigned doc.title
    started,     \* the calls the script has begun, in order
    finished,    \* the calls that have returned, in order
    raised,      \* the exception a library call raised, with the call that raised it
    exitErr      \* the exception that left the module

vars == <<disk, pc, ext, frame, pending, memory, df, points, rgb, shaded,
          renderer, doc, titleWrites, started, finished, raised, exitErr>>

-----------------------------------------------------------------------------
(* Bounds of the model *)

MaxCoord == 1
MaxRows == 2
MaxParts == 2

\* Python's None, as a record so that it compares with every other value of the model
None == [none |-> TRUE]
Coord == 0..MaxCoord

-----------------------------------------------------------------------------
(* Sequence helpers *)

ToSet(s) == {s[i] : i \in DOMAIN s}

Min(a, b) == IF a <= b THEN a ELSE b

RECURSIVE SumSeq(_)
SumSeq(s) == IF s = <<>> THEN 0 ELSE s[1] + SumSeq(Tail(s))

RECURSIVE Flatten(_)
Flatten(ss) == IF ss = <<>> THEN <<>> ELSE ss[1] \o Flatten(Tail(ss))

IsPrefix(s, t) == Len(s) <= Len(t) /\ SubSeq(t, 1, Len(s)) = s

SetMin(S) == CHOOSE m \in S : \A x \in S : m <= x
SetMax(S) == CHOOSE m \in S : \A x \in S : m >= x

-----------------------------------------------------------------------------
(* The dataset on disk: named columns, rows split over partitions *)

Schemas ==
    { <<"pickup_x", "dropoff_x", "dropoff_y">>,
      <<"dropoff_y", "dropoff_x">>,
      <<"dropoff_x", "pickup_x">> }

\* the two coordinate columns range over Coord; a column the script does not
\* read takes one of two values, enough to tell rows apart by it
RowsOf(schema) ==
    { r \in [ToSet(schema) -> Coord] :
        \A c \in ToSet(schema) \ {"dropoff_x", "dropoff_y"} : r[c] \in {0, 1} }

\* rows cut into consecutive partitions of the given sizes
Split(rows, sizes) ==
    [i \in DOMAIN sizes |->
        SubSeq(rows, SumSeq(SubSeq(sizes, 1, i - 1)) + 1,
                     SumSeq(SubSeq(sizes, 1, i)))]

\* the ways to cut n rows into 1..MaxParts partitions
Cuts(n) ==
    { z \in UNION {[1..p -> 0..n] : p \in 1..MaxParts} : SumSeq(z) = n }

DiskRows == IF disk = None THEN <<>> ELSE Flatten(disk.parts)

-----------------------------------------------------------------------------
(* The script's statements *)

\* a script that asks for the renderer before it activates the extension
ProgramRendererFirst ==
    << "renderer", "extension", "read_parquet", "getitem", "persist",
       "Points", "datashade", "opts", "server_doc", "title" >>

Program ==
    << "extension", "read_parquet", "getitem", "persist",
       "Points", "datashade", "opts",
       "renderer", "server_doc", "title" >>

IndexOf(step) == CHOOSE i \in DOMAIN Program : Program[i] = step

Successor(step) ==
    IF IndexOf(step) = Len(Program) THEN "done" ELSE Program[IndexOf(step) + 1]

\* a selection that keeps a third column
SelectedExtra == << "dropoff_x", "dropoff_y", "pickup_x" >>

\* a selection that takes the x coordinate from the wrong column
SelectedPickup == << "pickup_x", "dropoff_y" >>

Selected == << "dropoff_x", "dropoff_y" >>

PlotWidth == 800
PlotHeight == 600
PlotBgcolor == "black"
\* width and height exchanged
PlotOptsSwapped == [width |-> PlotHeight, height |-> PlotWidth, bgcolor |-> PlotBgcolor]

PlotOpts == [width |-> PlotWidth, height |-> PlotHeight, bgcolor |-> PlotBgcolor]

\* the title the document is created with, left in place
AppTitleDefault == "Bokeh Application"

AppTitle == "HoloViews Bokeh App"

\* an except clause that re-raises its own error in place of the library's
PropagateWrapped(e) == [type |-> "RuntimeError", at |-> e.at]

\* the module has no try/except: what a call raises is what leaves the module
Propagate(e) == e

\* an exception of the given type raised by the call `step`
Exception(type, step) == [type |-> type, at |-> step]

-----------------------------------------------------------------------------
(* What the library calls compute *)

\* df[cols]: every row restricted to the listed columns
Project(rows, cols) ==
    [k \in DOMAIN rows |-> [c \in ToSet(cols) |-> rows[k][c]]]

\* the rows of a dask collection: those of its partitions that are in memory
TableRows(t) ==
    Flatten([i \in 1..t.npartitions |->
                IF i \in DOMAIN memory THEN memory[i] ELSE << >>])

\* hv.Points(data): the element refers to the table it was given, and the
\* table's first two columns are the x and y key dimensions
PointCoords(p) ==
    LET rows == TableRows(df)
    IN  [k \in DOMAIN rows |-> << rows[k][p.kdims[1]], rows[k][p.kdims[2]] >>]

\* datashade is called with the element alone: the aggregate's resolution is
\* the operation's own width and height parameters
DatashadeWidth == 400
DatashadeHeight == 400

\* the pixel column (row) of a coordinate v on an axis of n pixels spanning [lo, hi]
Bin(v, lo, hi, n) ==
    IF hi = lo THEN 0 ELSE Min(n - 1, ((v - lo) * n) \div (hi - lo))

Degenerate(coords) ==
    \/ coords = << >>
    \/ Cardinality({coords[k][1] : k \in DOMAIN coords}) = 1
    \/ Cardinality({coords[k][2] : k \in DOMAIN coords}) = 1

\* an aggregate that bins the undefined extent of an empty table into pixel (0, 0)
AggregateNaN(coords, w, h) ==
    IF coords = << >> THEN (<< 0, 0 >> :> 0)
    ELSE LET xs == {coords[k][1] : k \in DOMAIN coords}
             ys == {coords[k][2] : k \in DOMAIN coords}
             px(k) == << Bin(coords[k][1], SetMin(xs), SetMax(xs), w),
                         Bin(coords[k][2], SetMin(ys), SetMax(ys), h) >>
             hit == {px(k) : k \in DOMAIN coords}
         IN  [b \in hit |-> Cardinality({k \in DOMAIN coords : px(k) = b})]

\* the count aggregate: pixel -> number of points binned into it, for the
\* pixels that received any; the data's own extent is the canvas range
Aggregate(coords, w, h) ==
    IF coords = << >> THEN << >>
    ELSE LET xs == {coords[k][1] : k \in DOMAIN coords}
             ys == {coords[k][2] : k \in DOMAIN coords}
             px(k) == << Bin(coords[k][1], SetMin(xs), SetMax(xs), w),
                         Bin(coords[k][2], SetMin(ys), SetMax(ys), h) >>
             hit == {px(k) : k \in DOMAIN coords}
         IN  [b \in hit |-> Cardinality({k \in DOMAIN coords : px(k) = b})]

\* shading: a pixel with a count is coloured, every other pixel is left
\* transparent (the background shows through)
Shade(agg, w, h) == [width |-> w, height |-> h, counts |-> agg, lit |-> DOMAIN agg]

-----------------------------------------------------------------------------
(* Steps *)

Begin(step) == started' = Append(started, step)

Return(step) ==
    /\ finished' = Append(finished, step)
    /\ pc' = Successor(step)
    /\ UNCHANGED <<raised, exitErr>>

Raise(type, step) ==
    /\ raised' = Exception(type, step)
    /\ exitErr' = Propagate(Exception(type, step))
    /\ pc' = "failed"
    /\ UNCHANGED finished

\* line 5: hv.extension('bokeh')
Extension ==
    /\ pc = "extension"
    /\ Begin("extension")
    /\ \E available \in BOOLEAN :
          IF available
          THEN ext' = ext \cup {"bokeh"} /\ Return("extension")
          ELSE Raise("ImportError", "extension") /\ UNCHANGED ext
    /\ UNCHANGED <<disk, frame, pending, memory, df, points, rgb, shaded,
                   renderer, doc, titleWrites>>

\* a load that answers a missing path with an empty collection
ReadParquetLenient ==
    /\ pc = "read_parquet"
    /\ Begin("read_parquet")
    /\ frame' = IF disk = None
                THEN [columns |-> << >>, npartitions |-> 0]
                ELSE [columns |-> disk.columns, npartitions |-> Len(disk.parts)]
    /\ Return("read_parquet")
    /\ UNCHANGED <<disk, ext, pending, memory, df, points, rgb, shaded,
                   renderer, doc, titleWrites>>

\* line 8: dd.read_parquet('../data/nyc_taxi_hours.parq/')
ReadParquet ==
    /\ pc = "read_parquet"
    /\ Begin("read_parquet")
    /\ IF disk = None
       THEN Raise("FileNotFoundError", "read_parquet") /\ UNCHANGED frame
       ELSE /\ frame' = [columns |-> disk.columns, npartitions |-> Len(disk.parts)]
            /\ Return("read_parquet")
    /\ UNCHANGED <<disk, ext, pending, memory, df, points, rgb, shaded,
                   renderer, doc, titleWrites>>

\* line 8: ...[['dropoff_x', 'dropoff_y']]
GetItem ==
    /\ pc = "getitem"
    /\ Begin("getitem")
    /\ IF ToSet(Selected) \subseteq ToSet(frame.columns)
       THEN /\ frame' = [frame EXCEPT !.columns = Selected]
            /\ Return("getitem")
       ELSE Raise("KeyError", "getitem") /\ UNCHANGED frame
    /\ UNCHANGED <<disk, ext, pending, memory, df, points, rgb, shaded,
                   renderer, doc, titleWrites>>

\* line 8: ....persist() is called: every partition goes to the scheduler
PersistCall ==
    /\ pc = "persist"
    /\ Begin("persist")
    /\ pending' = 1..frame.npartitions
    /\ pc' = "persist_wait"
    /\ UNCHANGED <<disk, ext, frame, memory, df, points, rgb, shaded, renderer,
                   doc, titleWrites, finished, raised, exitErr>>

\* a worker of the scheduler's pool reads one partition and keeps the selected columns
Worker ==
    /\ \E i \in pending :
          /\ memory' = (i :> Project(disk.parts[i], frame.columns)) @@ memory
          /\ pending' = pending \ {i}
    /\ UNCHANGED <<disk, pc, ext, frame, df, points, rgb, shaded, renderer, doc,
                   titleWrites, started, finished, raised, exitErr>>

\* a persist that returns as soon as the graph is submitted
PersistDoneEarly == TRUE

\* the local scheduler's persist returns when the graph has been computed
PersistDone == pending = {}

\* line 8: persist() returns and df is bound
PersistReturn ==
    /\ pc = "persist_wait"
    /\ PersistDone
    /\ df' = frame
    /\ Return("persist")
    /\ UNCHANGED <<disk, ext, frame, pending, memory, points, rgb, shaded,
                   renderer, doc, titleWrites, started>>

\* a Points that takes the rows out of the table and keeps them itself
PointsOwning ==
    /\ pc = "Points"
    /\ Begin("Points")
    /\ points' = [data |-> [rows |-> TableRows(df)], kdims |-> SubSeq(df.columns, 1, 2)]
    /\ memory' = [i \in DOMAIN memory |-> << >>]
    /\ Return("Points")
    /\ UNCHANGED <<disk, ext, frame, pending, df, rgb, shaded, renderer,
                   doc, titleWrites>>

\* line 9: hv.Points(df)
Points ==
    /\ pc = "Points"
    /\ Begin("Points")
    /\ points' = [data |-> [ref |-> "df"], kdims |-> SubSeq(df.columns, 1, 2)]
    /\ Return("Points")
    /\ UNCHANGED <<disk, ext, frame, pending, memory, df, rgb, shaded, renderer,
                   doc, titleWrites>>

\* line 9: datashade(...)
Datashade ==
    /\ pc = "datashade"
    /\ Begin("datashade")
    /\ \/ /\ rgb' = Shade(Aggregate(PointCoords(points), DatashadeWidth, DatashadeHeight),
                          DatashadeWidth, DatashadeHeight)
          /\ Return("datashade")
       \/ /\ Degenerate(PointCoords(points))
          /\ Raise("ZeroDivisionError", "datashade")
          /\ UNCHANGED rgb
    /\ UNCHANGED <<disk, ext, frame, pending, memory, df, points, shaded,
                   renderer, doc, titleWrites>>

\* line 9: ....opts(plot=dict(width=800, height=600, bgcolor="black")), bound to shaded
Opts ==
    /\ pc = "opts"
    /\ Begin("opts")
    /\ shaded' = [image |-> rgb, plot |-> PlotOpts]
    /\ Return("opts")
    /\ UNCHANGED <<disk, ext, frame, pending, memory, df, points, rgb, renderer,
                   doc, titleWrites>>

\* line 12: hv.renderer('bokeh')
Renderer ==
    /\ pc = "renderer"
    /\ Begin("renderer")
    /\ IF "bokeh" \in ext
       THEN renderer' = [backend |-> "bokeh"] /\ Return("renderer")
       ELSE Raise("KeyError", "renderer") /\ UNCHANGED renderer
    /\ UNCHANGED <<disk, ext, frame, pending, memory, df, points, rgb, shaded,
                   doc, titleWrites>>

\* line 12: ....server_doc(shaded), bound to doc
ServerDoc ==
    /\ pc = "server_doc"
    /\ Begin("server_doc")
    /\ \E ok \in BOOLEAN :
          IF ok
          THEN /\ doc' = [title |-> "Bokeh Application", root |-> "shaded"]
               /\ Return("server_doc")
          ELSE Raise("RuntimeError", "server_doc") /\ UNCHANGED doc
    /\ UNCHANGED <<disk, ext, frame, pending, memory, df, points, rgb, shaded,
                   renderer, titleWrites>>

\* line 13: doc.title = 'HoloViews Bokeh App'
SetTitle ==
    /\ pc = "title"
    /\ Begin("title")
    /\ doc' = [doc EXCEPT !.title = AppTitle]
    /\ titleWrites' = titleWrites + 1
    /\ Return("title")
    /\ UNCHANGED <<disk, ext, frame, pending, memory, df, points, rgb, shaded,
                   renderer>>

Init ==
    /\ \/ disk = None
       \/ \E schema \in Schemas, n \in 0..MaxRows :
             \E rows \in [1..n -> RowsOf(schema)], sizes \in Cuts(n) :
                disk = [columns |-> schema, parts |-> Split(rows, sizes)]
    /\ pc = Program[1]
    /\ ext = {}
    /\ frame = None
    /\ pending = {}
    /\ memory = << >>
    /\ df = None
    /\ points = None
    /\ rgb = None
    /\ shaded = None
    /\ renderer = None
    /\ doc = None
    /\ titleWrites = 0
    /\ started = << >>
    /\ finished = << >>
    /\ raised = None
    /\ exitErr = None

Next ==
    \/ Extension
    \/ ReadParquet
    \/ GetItem
    \/ PersistCall
    \/ Worker
    \/ PersistReturn
    \/ Points
    \/ Datashade
    \/ Opts
    \/ Renderer
    \/ ServerDoc
    \/ SetTitle

Spec == Init /\ [][Next]_vars

-----------------------------------------------------------------------------
(* Properties *)

TheOrder ==
    << "extension", "read_parquet", "getitem", "persist", "Points",
       "datashade", "opts", "renderer", "server_doc", "title" >>

TwoColumns == {"dropoff_x", "dropoff_y"}

\* C1: in a run that completes, doc's title is "HoloViews Bokeh App"; the
\* script writes the title once at most, exactly once in a completed run, and
\* only after server_doc has returned the document.
C1_TitleSetOnceAfterDoc ==
    /\ titleWrites <= 1
    /\ titleWrites > 0 => doc # None /\ "server_doc" \in ToSet(finished)
    /\ pc = "done" => /\ doc # None
                      /\ doc.title = "HoloViews Bokeh App"
                      /\ titleWrites = 1

C1_Witness == pc = "done" /\ titleWrites = 1 /\ doc # None

\* C2: with the dataset path missing, read_parquet raises and the
\* file-not-found error leaves the module; read_parquet never returns, the
\* run never completes, and the rasterize, server_doc and title steps are
\* never begun, so no document exists in any state of the run.
C2_MissingPathFails ==
    disk = None =>
        /\ pc \in {"extension", "read_parquet", "failed"}
        /\ "read_parquet" \notin ToSet(finished)
        /\ ToSet(started) \subseteq {"extension", "read_parquet"}
        /\ doc = None /\ shaded = None /\ rgb = None /\ titleWrites = 0
        /\ "read_parquet" \in ToSet(started) =>
              /\ pc = "failed"
              /\ exitErr = [type |-> "FileNotFoundError", at |-> "read_parquet"]

C2_Witness ==
    /\ disk = None
    /\ pc = "failed"
    /\ "read_parquet" \in ToSet(started)
    /\ exitErr # None

\* C3: for a dataset that has the columns dropoff_x and dropoff_y, the
\* collection after the selection has exactly those two columns, and the
\* table bound to df has one row for every row of the source, each row
\* carrying the source row's two values.
C3_TwoColumnsAllRows ==
    /\ "getitem" \in ToSet(finished) =>
          /\ Len(frame.columns) = 2
          /\ ToSet(frame.columns) = TwoColumns
    /\ df # None =>
          /\ ToSet(df.columns) = TwoColumns
          /\ Len(TableRows(df)) = Len(DiskRows)
          /\ \A k \in 1..Len(DiskRows) :
                /\ DOMAIN TableRows(df)[k] = TwoColumns
                /\ \A c \in TwoColumns : TableRows(df)[k][c] = DiskRows[k][c]

C3_Witness ==
    /\ df # None
    /\ Len(disk.columns) = 3
    /\ Len(DiskRows) = MaxRows
    /\ Len(disk.parts) > 1
    /\ \A i \in DOMAIN disk.parts : disk.parts[i] # << >>

SameDropoff ==
    \A j, k \in 1..Len(DiskRows) :
        /\ DiskRows[j]["dropoff_x"] = DiskRows[k]["dropoff_x"]
        /\ DiskRows[j]["dropoff_y"] = DiskRows[k]["dropoff_y"]

C6_LinearOrder ==
    /\ IsPrefix(started, TheOrder)
    /\ IsPrefix(finished, started)
    /\ Len(started) - Len(finished) <= 1
    /\ pc = "done" => finished = TheOrder
    /\ "renderer" \in ToSet(started) =>
          /\ "extension" \in ToSet(finished)
          /\ "bokeh" \in ext

C6_Witness == pc = "done" /\ started = TheOrder

\* C7: once a call has raised, the run is over: the script is in its failed
\* state, the exception that left the module is the one the library raised,
\* the raising call was begun once, and no call was begun after it.
C7_FailurePropagates ==
    /\ pc = "failed" => raised # None
    /\ raised # None =>
          /\ pc = "failed"
          /\ exitErr = raised
          /\ started = Append(finished, raised.at)
          /\ Cardinality(ToSet(started)) = Len(started)
          /\ raised.at = "read_parquet" => disk = None
          /\ raised.at = "getitem" =>
                /\ raised.type = "KeyError"
                /\ ~ (TwoColumns \subseteq ToSet(disk.columns))

C7_Witness ==
    /\ pc = "failed"
    /\ raised # None
    /\ raised.at = "getitem"
    /\ exitErr = raised

\* C8: from the moment persist has returned (df is bound, Points or a later
\* call has begun), every partition of the dataset is in memory with its
\* rows, and no partition is still pending.
C8_PersistBlocks ==
    (df # None \/ points # None
        \/ ToSet(started) \cap {"Points", "datashade", "opts"} # {}) =>
        /\ pending = {}
        /\ DOMAIN memory = 1..Len(disk.parts)
        /\ \A i \in 1..Len(disk.parts) : Len(memory[i]) = Len(disk.parts[i])

C8_Witness ==
    /\ points # None
    /\ Len(disk.parts) > 1
    /\ \A i \in DOMAIN disk.parts : disk.parts[i] # << >>

C10_TableUnchanged ==
    [][ /\ df # None => /\ df' = df
                        /\ memory' = memory
                        /\ disk' = disk
        /\ points' # None => points'.data = [ref |-> "df"] ]_vars

C10_Witness == pc = "done" /\ df # None /\ points # None /\ TableRows(df) # << >>

====
